---- MODULE Spec2Model ----
(***************************************************************************)
(* The routing and failure-recovery engine of the SDN controller           *)
(* (class SDNController of "Assignment 4/main.py") as a state machine.     *)
(*                                                                         *)
(* One action per public operation of the controller; each action is the   *)
(* whole method, helper calls included.  Python dictionaries are functions *)
(* with a partial domain; where the code depends on a dictionary's         *)
(* insertion order (graph nodes, adjacency, flow-table rows) the order is  *)
(* kept as a sequence.  None (an unreachable destination) is the empty     *)
(* sequence: the code only ever tests a flow-table value with "if path".   *)
(*                                                                         *)
(* An exception that leaves a method is recorded in fault; main.py runs    *)
(* the controller under Cmd.cmdloop, which does not catch it, so the       *)
(* process ends there: no action is enabled once fault is set, and the     *)
(* state at the fault is the state the exception left behind.              *)
(***************************************************************************)
EXTENDS Integers, Sequences, FiniteSets, TLC

\* ------------------------------------------------------------ input sets
Nodes == {"A", "B", "C"}
Weights == {1, 5}
Capacities == {10}
TrafficTypes == {"critical", "important"}

\* Ordered pairs of distinct nodes, and the arguments of add_node(*nodes):
\* the non-empty sequences of distinct nodes.
Pairs == {p \in Nodes \X Nodes : p[1] # p[2]}
NodeArgs == {s \in UNION {[1..n -> Nodes] : n \in 1..Cardinality(Nodes)} :
               \A i, j \in DOMAIN s : i # j => s[i] # s[j]}

\* Node identifiers are opaque tokens: the code only compares them for
\* equality.  So the first identifier the controller ever sees is called "A",
\* the second "B", the third "C"; every run is a renaming of one of these.
NodeNames == <<"A", "B", "C">>

\* ---------------------------------------------------------------- bounds
\* How many times a run may call each operation, in the failure runs (Spec),
\* in the routing runs (SpecRoute) and in the node runs (SpecNode), and how
\* many calls a run may make in all.  They bound the utilization counters too: a counter grows by one per
\* inject_flow call and by one per pair a remove_link call reroutes.
MaxAddNode == 1
MaxAddLink == 3
MaxInject == 1
MaxSteps == 7
FailMaxRemove == 2
FailMaxCompute == 1
RouteMaxRemove == 1
RouteMaxCompute == 2
NodeMaxAddNode == 2

VARIABLES
  topology,          \* nx.Graph: [nodes: Seq, adj: node -> Seq of neighbours, attr: {u,v} -> data]
  flow_rows,         \* the keys of flow_tables, in insertion order
  flow_tables,       \* <<src,dst>> -> path, or None; rows listed in flow_rows
  traffic,           \* <<src,dst>> -> [type, priority]
  link_utilization,  \* <<u,v>> -> counter
  backup_paths,      \* <<src,dst>> -> Seq of paths
  fault,             \* "none", or the exception that ended the last operation
  lastOp,            \* history: the operation that produced this state
  calls,             \* history: how many times each operation has been called
  failures           \* history: <<src,dst>> -> [n, k], see track_failures

vars == <<topology, flow_rows, flow_tables, traffic, link_utilization,
          backup_paths, fault, lastOp, calls, failures>>

\* -------------------------------------------------------------- helpers
None == <<>>

Range(s) == {s[i] : i \in DOMAIN s}

\* d[k] = v on a Python dict held as a function.
Put(d, k, v) == (k :> v) @@ d

\* d.pop(k, None)
Pop(d, k) == [x \in (DOMAIN d) \ {k} |-> d[x]]

RECURSIVE Filter(_, _)
Filter(s, keep) ==
  IF s = <<>> THEN <<>>
  ELSE IF Head(s) \in keep THEN <<Head(s)>> \o Filter(Tail(s), keep)
       ELSE Filter(Tail(s), keep)

\* self.topology.has_edge(u, v)
has_edge(g, u, v) == v \in Range(g.adj[u])

\* nx.Graph.add_node: a new node goes last in the node order.
graph_add_node(g, n) ==
  IF n \in Range(g.nodes) THEN g
  ELSE [g EXCEPT !.nodes = Append(@, n)]

\* nx.Graph.add_edge: u, then v, join the node order when new; the edge joins
\* both adjacency lists at the end when new and keeps its place, with the new
\* data, when it exists.
graph_add_edge(g, u, v, data) ==
  LET g1 == graph_add_node(graph_add_node(g, u), v)
      au == IF v \in Range(g1.adj[u]) THEN g1.adj[u] ELSE Append(g1.adj[u], v)
      a1 == [g1.adj EXCEPT ![u] = au]
      av == IF u \in Range(a1[v]) THEN a1[v] ELSE Append(a1[v], u)
  IN [nodes |-> g1.nodes,
      adj |-> [a1 EXCEPT ![v] = av],
      attr |-> Put(g1.attr, {u, v}, data)]

\* nx.Graph.remove_edge
graph_remove_edge(g, u, v) ==
  [nodes |-> g.nodes,
   adj |-> [g.adj EXCEPT ![u] = Filter(@, Nodes \ {v}),
                         ![v] = Filter(@, Nodes \ {u})],
   attr |-> Pop(g.attr, {u, v})]

\* The identifiers the controller has seen: graph nodes and traffic keys.
KnownNodes ==
  Range(topology.nodes) \cup {p[1] : p \in DOMAIN traffic} \cup {p[2] : p \in DOMAIN traffic}

\* Whether the arguments args, read left to right, name new nodes in the
\* order of NodeNames.
RECURSIVE in_naming_order(_, _)
in_naming_order(known, args) ==
  IF args = <<>> THEN TRUE
  ELSE IF Head(args) \in known THEN in_naming_order(known, Tail(args))
  ELSE /\ Head(args) = NodeNames[Cardinality(known) + 1]
       /\ in_naming_order(known \cup {Head(args)}, Tail(args))

\* ----------------------------------------------------------------- Init
Init ==
  /\ topology = [nodes |-> <<>>, adj |-> [n \in Nodes |-> <<>>], attr |-> <<>>]
  /\ flow_rows = <<>>
  /\ flow_tables = <<>>
  /\ traffic = <<>>
  /\ link_utilization = <<>>
  /\ backup_paths = <<>>
  /\ fault = "none"
  /\ lastOp = [op |-> "init"]
  /\ failures = <<>>
  /\ calls = [add_node |-> 0, add_link |-> 0, remove_link |-> 0,
              inject_flow |-> 0, compute_paths |-> 0]

\* The operations called so far.
Steps ==
  calls.add_node + calls.add_link + calls.remove_link + calls.inject_flow
    + calls.compute_paths

\* What every operation needs to start: the process is alive.
Running == fault = "none"

\* Whether a run bounded by B may call operation op once more.
Allowed(B, op) == calls[op] < B[op] /\ Steps < MaxSteps

\* ------------------------------------------------------------- add_node
\* for node in nodes: topology.add_node(node); flow_tables[node] = {}
RECURSIVE add_nodes(_, _)
add_nodes(st, nodes) ==
  IF nodes = <<>> THEN st
  ELSE LET n == Head(nodes)
       IN add_nodes([topology |-> graph_add_node(st.topology, n),
                     flow_rows |-> IF n \in Range(st.flow_rows) THEN st.flow_rows
                                   ELSE Append(st.flow_rows, n),
                     flow_tables |-> [p \in {q \in DOMAIN st.flow_tables : q[1] # n}
                                        |-> st.flow_tables[p]]],
                    Tail(nodes))

add_node(nodes) ==
  /\ Running
  /\ LET st == add_nodes([topology |-> topology, flow_rows |-> flow_rows,
                          flow_tables |-> flow_tables], nodes)
     IN /\ topology' = st.topology
        /\ flow_rows' = st.flow_rows
        /\ flow_tables' = st.flow_tables
  /\ lastOp' = [op |-> "add_node"]
  /\ calls' = [calls EXCEPT !.add_node = @ + 1]
  /\ failures' = [p \in {q \in DOMAIN failures : q[1] \notin Range(nodes)} |-> failures[p]]
  /\ UNCHANGED <<traffic, link_utilization, backup_paths, fault>>

\* ------------------------------------------------------------- add_link
\* Mutant of add_link: the counters of a link that is replaced keep their
\* values (setdefault instead of assignment).
add_link_keeping_counters(u, v, weight, capacity) ==
  /\ Running
  /\ topology' = graph_add_edge(topology, u, v,
                                [weight |-> weight, capacity |-> capacity])
  /\ link_utilization' =
       IF <<u, v>> \in DOMAIN link_utilization THEN link_utilization
       ELSE Put(Put(link_utilization, <<u, v>>, 0), <<v, u>>, 0)
  /\ lastOp' = [op |-> "add_link"]
  /\ calls' = [calls EXCEPT !.add_link = @ + 1]
  /\ UNCHANGED <<flow_rows, flow_tables, traffic, backup_paths, fault, failures>>

add_link(u, v, weight, capacity) ==
  /\ Running
  /\ topology' = graph_add_edge(topology, u, v,
                                [weight |-> weight, capacity |-> capacity])
  /\ link_utilization' = Put(Put(link_utilization, <<u, v>>, 0), <<v, u>>, 0)
  /\ lastOp' = [op |-> "add_link"]
  /\ calls' = [calls EXCEPT !.add_link = @ + 1]
  /\ UNCHANGED <<flow_rows, flow_tables, traffic, backup_paths, fault, failures>>

\* ---------------------------------------------------- path enumeration
\* nx.all_simple_paths(G, src, dst): depth-first search from src that follows
\* each node's neighbours in adjacency order, skips the nodes already on the
\* path, and yields the path whenever the next node is dst (it never goes on
\* through dst).  The default cutoff, len(G) - 1, cuts nothing off a simple
\* path.  The paths come out in the order the search finds them.
\* Mutant of simple_paths_from: the search forgets the nodes it has visited
\* and relies on a cutoff of len(G) edges alone.
RECURSIVE walks_from(_, _, _, _)
walks_from(g, visited, children, dst) ==
  IF children = <<>> THEN <<>>
  ELSE LET child == Head(children)
           rest == walks_from(g, visited, Tail(children), dst)
       IN IF child = dst THEN <<Append(visited, child)>> \o rest
          ELSE IF Len(visited) >= Len(g.nodes) THEN rest
          ELSE walks_from(g, Append(visited, child), g.adj[child], dst) \o rest

RECURSIVE simple_paths_from(_, _, _, _)
simple_paths_from(g, visited, children, dst) ==
  IF children = <<>> THEN <<>>
  ELSE LET child == Head(children)
           rest == simple_paths_from(g, visited, Tail(children), dst)
       IN IF child \in Range(visited) THEN rest
          ELSE IF child = dst THEN <<Append(visited, child)>> \o rest
          ELSE simple_paths_from(g, Append(visited, child), g.adj[child], dst) \o rest

all_simple_paths(g, src, dst) == simple_paths_from(g, <<src>>, g.adj[src], dst)

\* ------------------------------------------------------- shortest path
Reverse(s) == [i \in 1..Len(s) |-> s[Len(s) + 1 - i]]

\* heappop on a heap of (distance, count, node): the least distance, and
\* among equals the entry pushed first.
heap_min(h) ==
  CHOOSE x \in h : \A y \in h : x[1] < y[1] \/ (x[1] = y[1] /\ x[2] <= y[2])

\* The loop over the neighbours w of the node v just settled in direction dir
\* (1 forward from the source, 2 backward from the target).  With weights
\* that are not negative the "Contradictory paths" ValueError cannot arise.
RECURSIVE dijkstra_relax(_, _, _, _, _)
dijkstra_relax(g, st, dir, v, nbrs) ==
  IF nbrs = <<>> THEN st
  ELSE
    LET w == Head(nbrs)
        vwLength == st.dists[dir][v] + g.attr[{v, w}].weight
    IN IF w \in DOMAIN st.dists[dir] THEN dijkstra_relax(g, st, dir, v, Tail(nbrs))
       ELSE IF w \notin DOMAIN st.seen[dir] \/ vwLength < st.seen[dir][w] THEN
         LET s1 == [st EXCEPT !.seen[dir] = Put(@, w, vwLength),
                              !.fringe[dir] = @ \cup {<<vwLength, st.c, w>>},
                              !.c = @ + 1,
                              !.paths[dir] = Put(@, w, Append(st.paths[dir][v], w))]
             totaldist == s1.seen[1][w] + s1.seen[2][w]
             s2 == IF w \in DOMAIN s1.seen[1] /\ w \in DOMAIN s1.seen[2]
                      /\ (s1.finalpath = <<>> \/ s1.finaldist > totaldist)
                   THEN [s1 EXCEPT !.finaldist = totaldist,
                                   !.finalpath = s1.paths[1][w]
                                                 \o Tail(Reverse(s1.paths[2][w]))]
                   ELSE s1
         IN dijkstra_relax(g, s2, dir, v, Tail(nbrs))
       ELSE dijkstra_relax(g, st, dir, v, Tail(nbrs))

\* The main loop: the two searches take turns, each settling its closest
\* fringe node; the search ends when a node is settled in both directions.
\* <<>> stands for NetworkXNoPath.
RECURSIVE dijkstra_loop(_, _, _)
dijkstra_loop(g, st, lastdir) ==
  IF st.fringe[1] = {} \/ st.fringe[2] = {} THEN <<>>
  ELSE
    LET dir == 3 - lastdir
        top == heap_min(st.fringe[dir])
        v == top[3]
        s1 == [st EXCEPT !.fringe[dir] = @ \ {top}]
    IN IF v \in DOMAIN s1.dists[dir] THEN dijkstra_loop(g, s1, dir)
       ELSE LET s2 == [s1 EXCEPT !.dists[dir] = Put(@, v, top[1])]
            IN IF v \in DOMAIN s2.dists[3 - dir] THEN s2.finalpath
               ELSE dijkstra_loop(g, dijkstra_relax(g, s2, dir, v, g.adj[v]), dir)

\* The state of the search before its first turn.
dijkstra_start(src, dst) ==
  [dists |-> <<<<>>, <<>>>>,
   paths |-> <<(src :> <<src>>), (dst :> <<dst>>)>>,
   fringe |-> <<{<<0, 0, src>>}, {<<0, 1, dst>>}>>,
   seen |-> <<(src :> 0), (dst :> 0)>>,
   c |-> 2, finaldist |-> 0, finalpath |-> <<>>]

\* Mutant of shortest_path: the call without weight='weight', which counts
\* every link as 1.
shortest_path_by_hops(g, src, dst) ==
  dijkstra_loop([g EXCEPT !.attr = [l \in DOMAIN g.attr |-> [g.attr[l] EXCEPT !.weight = 1]]],
                dijkstra_start(src, dst), 2)

\* nx.shortest_path(G, src, dst, weight='weight'): bidirectional Dijkstra.
shortest_path(g, src, dst) == dijkstra_loop(g, dijkstra_start(src, dst), 2)

\* ------------------------------------------------------- load balancing
\* sum(self.link_utilization.get((path[i], path[i + 1]), 0) for i in ...)
RECURSIVE path_utilization(_, _, _)
path_utilization(util, path, i) ==
  IF i >= Len(path) THEN 0
  ELSE (IF <<path[i], path[i + 1]>> \in DOMAIN util
        THEN util[<<path[i], path[i + 1]>>] ELSE 0)
       + path_utilization(util, path, i + 1)

\* min(path_utils, key=itemgetter(0)): a scan that keeps the entry it holds
\* unless the next one has a smaller key.
RECURSIVE min_by_utilization(_, _)
min_by_utilization(best, path_utils) ==
  IF path_utils = <<>> THEN best
  ELSE min_by_utilization(IF Head(path_utils)[1] < best[1] THEN Head(path_utils)
                          ELSE best,
                          Tail(path_utils))

\* Mutant of select_load_balanced_path: among paths of equal utilization the
\* last one wins.
RECURSIVE last_min_by_utilization(_, _)
last_min_by_utilization(best, path_utils) ==
  IF path_utils = <<>> THEN best
  ELSE last_min_by_utilization(IF Head(path_utils)[1] <= best[1] THEN Head(path_utils)
                               ELSE best,
                               Tail(path_utils))

select_last_least_utilized(util, paths) ==
  LET path_utils == [k \in DOMAIN paths |->
                       <<path_utilization(util, paths[k], 1), paths[k]>>]
  IN last_min_by_utilization(Head(path_utils), Tail(path_utils))[2]

select_load_balanced_path(util, paths) ==
  LET path_utils == [k \in DOMAIN paths |->
                       <<path_utilization(util, paths[k], 1), paths[k]>>]
  IN min_by_utilization(Head(path_utils), Tail(path_utils))[2]

\* -------------------------------------------------------- compute_paths
priority_map == [critical |-> 3, important |-> 2, default |-> 1]

\* self.traffic.get((src, dst), {'type': 'default', 'priority': 1})
traffic_info(src, dst) ==
  IF <<src, dst>> \in DOMAIN traffic THEN traffic[<<src, dst>>]
  ELSE [type |-> "default", priority |-> 1]

\* [p for p in all_paths if p != path]
RECURSIVE without(_, _)
without(paths, path) ==
  IF paths = <<>> THEN <<>>
  ELSE IF Head(paths) # path THEN <<Head(paths)>> \o without(Tail(paths), path)
       ELSE without(Tail(paths), path)

\* Mutant of compute_path_with_priority: the alternatives are appended to the
\* pair's backup list instead of replacing it.
compute_path_appending_backups(st, src, dst) ==
  LET all_paths == all_simple_paths(topology, src, dst)
      path == IF traffic_info(src, dst).priority = priority_map.critical
              THEN shortest_path(topology, src, dst)
              ELSE select_load_balanced_path(link_utilization, all_paths)
      old == IF <<src, dst>> \in DOMAIN st.backup_paths
             THEN st.backup_paths[<<src, dst>>] ELSE <<>>
  IN IF src \notin Range(flow_rows) THEN [st EXCEPT !.fault = "KeyError"]
     ELSE IF all_paths = <<>>
     THEN [st EXCEPT !.flow_tables = Put(@, <<src, dst>>, None)]
     ELSE [st EXCEPT !.flow_tables = Put(@, <<src, dst>>, path),
                     !.backup_paths = IF Len(all_paths) > 1
                                      THEN Put(@, <<src, dst>>,
                                               old \o without(all_paths, path))
                                      ELSE @]

\* One call on the running state st = [flow_tables, backup_paths, fault].
\* self.flow_tables[src] raises KeyError for a node that has no row; no
\* handler of the method catches it.
compute_path_with_priority(st, src, dst) ==
  LET all_paths == all_simple_paths(topology, src, dst)
      path == IF traffic_info(src, dst).priority = priority_map.critical
              THEN shortest_path(topology, src, dst)
              ELSE select_load_balanced_path(link_utilization, all_paths)
  IN IF src \notin Range(flow_rows) THEN [st EXCEPT !.fault = "KeyError"]
     ELSE IF all_paths = <<>>
     THEN [st EXCEPT !.flow_tables = Put(@, <<src, dst>>, None)]
     ELSE [st EXCEPT !.flow_tables = Put(@, <<src, dst>>, path),
                     !.backup_paths = IF Len(all_paths) > 1
                                      THEN Put(@, <<src, dst>>, without(all_paths, path))
                                      ELSE @]

\* The pairs (a[i], b[j]) in the order of two nested loops, a outside.
product(a, b) ==
  [k \in 1..(Len(a) * Len(b)) |->
     <<a[((k - 1) \div Len(b)) + 1], b[((k - 1) % Len(b)) + 1]>>]

RECURSIVE compute_pairs(_, _)
compute_pairs(st, todo) ==
  IF todo = <<>> \/ st.fault # "none" THEN st
  ELSE compute_pairs(compute_path_with_priority(st, Head(todo)[1], Head(todo)[2]),
                     Tail(todo))

compute_paths ==
  /\ Running
  /\ LET st == compute_pairs([flow_tables |-> flow_tables,
                              backup_paths |-> backup_paths, fault |-> "none"],
                             Filter(product(topology.nodes, topology.nodes), Pairs))
     IN /\ flow_tables' = st.flow_tables
        /\ backup_paths' = st.backup_paths
        /\ fault' = st.fault
  /\ lastOp' = [op |-> "compute_paths", repeated |-> lastOp.op = "compute_paths"]
  /\ calls' = [calls EXCEPT !.compute_paths = @ + 1]
  /\ failures' = IF fault' = "none"
                 THEN [p \in DOMAIN flow_tables' |->
                         [n |-> IF p \in DOMAIN backup_paths'
                                THEN Len(backup_paths'[p]) ELSE 0,
                          k |-> 0]]
                 ELSE failures
  /\ UNCHANGED <<topology, flow_rows, traffic, link_utilization>>

\* ---------------------------------------------------------- utilization
\* for i in range(len(path) - 1):
\*     link_utilization[(path[i], path[i+1])] += 1
\*     link_utilization[(path[i+1], path[i])] += 1
\* A missing counter raises KeyError and keeps the increments made so far.
\* Mutant of add_utilization: only the counter in the direction of travel is
\* incremented.
RECURSIVE add_utilization_one_way(_, _, _)
add_utilization_one_way(util, path, i) ==
  IF i >= Len(path) THEN [util |-> util, fault |-> "none"]
  ELSE LET a == path[i]
           b == path[i + 1]
       IN IF <<a, b>> \notin DOMAIN util THEN [util |-> util, fault |-> "KeyError"]
          ELSE add_utilization_one_way([util EXCEPT ![<<a, b>>] = @ + 1], path, i + 1)

RECURSIVE add_utilization(_, _, _)
add_utilization(util, path, i) ==
  IF i >= Len(path) THEN [util |-> util, fault |-> "none"]
  ELSE LET a == path[i]
           b == path[i + 1]
       IN IF <<a, b>> \notin DOMAIN util THEN [util |-> util, fault |-> "KeyError"]
          ELSE LET u1 == [util EXCEPT ![<<a, b>>] = @ + 1]
               IN IF <<b, a>> \notin DOMAIN u1 THEN [util |-> u1, fault |-> "KeyError"]
                  ELSE add_utilization([u1 EXCEPT ![<<b, a>>] = @ + 1], path, i + 1)

\* ---------------------------------------------------------- inject_flow
\* Mutant of inject_flow: a pair without routing information is reported
\* before anything is recorded, its traffic descriptor included.
inject_flow_recording_routed_only(src, dst, traffic_type) ==
  /\ Running
  /\ traffic' = IF <<src, dst>> \in DOMAIN flow_tables
                THEN Put(traffic, <<src, dst>>,
                         [type |-> traffic_type,
                          priority |-> IF traffic_type \in DOMAIN priority_map
                                       THEN priority_map[traffic_type] ELSE 1])
                ELSE traffic
  /\ LET r == IF <<src, dst>> \in DOMAIN flow_tables /\ flow_tables[<<src, dst>>] # None
              THEN add_utilization(link_utilization, flow_tables[<<src, dst>>], 1)
              ELSE [util |-> link_utilization, fault |-> "none"]
     IN /\ link_utilization' = r.util
        /\ fault' = r.fault
  /\ lastOp' = [op |-> "inject_flow"]
  /\ calls' = [calls EXCEPT !.inject_flow = @ + 1]
  /\ UNCHANGED <<topology, flow_rows, flow_tables, backup_paths, failures>>

inject_flow(src, dst, traffic_type) ==
  /\ Running
  /\ traffic' = Put(traffic, <<src, dst>>,
                    [type |-> traffic_type,
                     priority |-> IF traffic_type \in DOMAIN priority_map
                                  THEN priority_map[traffic_type] ELSE 1])
  /\ LET r == IF <<src, dst>> \in DOMAIN flow_tables /\ flow_tables[<<src, dst>>] # None
              THEN add_utilization(link_utilization, flow_tables[<<src, dst>>], 1)
              ELSE [util |-> link_utilization, fault |-> "none"]
     IN /\ link_utilization' = r.util
        /\ fault' = r.fault
  /\ lastOp' = [op |-> "inject_flow"]
  /\ calls' = [calls EXCEPT !.inject_flow = @ + 1]
  /\ UNCHANGED <<topology, flow_rows, flow_tables, backup_paths, failures>>

\* ---------------------------------------------------------- remove_link
\* any((u, v) == (path[i], path[i+1]) or (v, u) == (path[i], path[i+1]) ...)
traverses(path, u, v) ==
  \E i \in 1..(Len(path) - 1) :
     <<path[i], path[i + 1]>> = <<u, v>> \/ <<path[i], path[i + 1]>> = <<v, u>>

\* The items of flow_tables in iteration order: rows in insertion order, and
\* within a row the destinations in the order compute_paths inserted them,
\* which is the node order of the graph (nodes are never removed).
flow_items(rows, nodes, flows) == Filter(product(rows, nodes), DOMAIN flows)

\* Mutant of reroute: the last backup of a pair is never used.
RECURSIVE reroute_keeping_last_backup(_, _)
reroute_keeping_last_backup(st, affected_flows) ==
  IF affected_flows = <<>> \/ st.fault # "none" THEN st
  ELSE
    LET p == Head(affected_flows)
    IN IF p \in DOMAIN st.backup_paths /\ Len(st.backup_paths[p]) > 1
       THEN LET backup == Head(st.backup_paths[p])
                r == add_utilization(st.util, backup, 1)
            IN reroute_keeping_last_backup(
                 [flow_tables |-> [st.flow_tables EXCEPT ![p] = backup],
                  backup_paths |-> [st.backup_paths EXCEPT ![p] = Tail(@)],
                  util |-> r.util,
                  fault |-> r.fault],
                 Tail(affected_flows))
       ELSE reroute_keeping_last_backup([st EXCEPT !.flow_tables[p] = None],
                                        Tail(affected_flows))

\* The second loop of _handle_link_failure on the running state
\* st = [flow_tables, backup_paths, util, fault].
RECURSIVE reroute(_, _)
reroute(st, affected_flows) ==
  IF affected_flows = <<>> \/ st.fault # "none" THEN st
  ELSE
    LET p == Head(affected_flows)
    IN IF p \in DOMAIN st.backup_paths /\ st.backup_paths[p] # <<>>
       THEN LET backup == Head(st.backup_paths[p])
                r == add_utilization(st.util, backup, 1)
            IN reroute([flow_tables |-> [st.flow_tables EXCEPT ![p] = backup],
                        backup_paths |-> [st.backup_paths EXCEPT ![p] = Tail(@)],
                        util |-> r.util,
                        fault |-> r.fault],
                       Tail(affected_flows))
       ELSE reroute([st EXCEPT !.flow_tables[p] = None], Tail(affected_flows))

\* Mutant of affected_by: every pair with an installed path counts as
\* affected, whether or not its path traverses the failed link.
affected_by_any_path(flows, rows, nodes, u, v) ==
  Filter(flow_items(rows, nodes, flows),
         {p \in DOMAIN flows : flows[p] # None})

affected_by(flows, rows, nodes, u, v) ==
  Filter(flow_items(rows, nodes, flows),
         {p \in DOMAIN flows : traverses(flows[p], u, v)})

handle_link_failure(st, u, v) ==
  reroute(st, affected_by(st.flow_tables, flow_rows, topology.nodes, u, v))

\* History for the exhaustion property.  For a pair routed by the last
\* completed compute_paths: n, the backups the pair had right after that
\* pass, and k, the link failures on the pair's installed path since, that
\* is the remove_link calls that removed a link the path installed at the time
\* traversed.
track_failures(u, v) ==
  [p \in DOMAIN failures |->
     IF /\ has_edge(topology, u, v)
        /\ p \in DOMAIN flow_tables
        /\ traverses(flow_tables[p], u, v)
     THEN [failures[p] EXCEPT !.k = @ + 1]
     ELSE failures[p]]

\* Mutant of remove_link: the call without the has_edge test, where
\* nx.Graph.remove_edge raises NetworkXError for a link that does not exist.
remove_link_unguarded(u, v) ==
  /\ Running
  /\ IF has_edge(topology, u, v)
     THEN LET st == handle_link_failure(
                      [flow_tables |-> flow_tables, backup_paths |-> backup_paths,
                       util |-> Pop(Pop(link_utilization, <<u, v>>), <<v, u>>),
                       fault |-> "none"], u, v)
          IN /\ topology' = graph_remove_edge(topology, u, v)
             /\ flow_tables' = st.flow_tables
             /\ backup_paths' = st.backup_paths
             /\ link_utilization' = st.util
             /\ fault' = st.fault
     ELSE /\ fault' = "NetworkXError"
          /\ UNCHANGED <<topology, flow_tables, backup_paths, link_utilization>>
  /\ failures' = track_failures(u, v)
  /\ lastOp' = [op |-> "remove_link"]
  /\ calls' = [calls EXCEPT !.remove_link = @ + 1]
  /\ UNCHANGED <<flow_rows, traffic>>

remove_link(u, v) ==
  /\ Running
  /\ IF has_edge(topology, u, v)
     THEN LET st == handle_link_failure(
                      [flow_tables |-> flow_tables, backup_paths |-> backup_paths,
                       util |-> Pop(Pop(link_utilization, <<u, v>>), <<v, u>>),
                       fault |-> "none"], u, v)
          IN /\ topology' = graph_remove_edge(topology, u, v)
             /\ flow_tables' = st.flow_tables
             /\ backup_paths' = st.backup_paths
             /\ link_utilization' = st.util
             /\ fault' = st.fault
     ELSE UNCHANGED <<topology, flow_tables, backup_paths, link_utilization, fault>>
  /\ failures' = track_failures(u, v)
  /\ lastOp' = [op |-> "remove_link"]
  /\ calls' = [calls EXCEPT !.remove_link = @ + 1]
  /\ UNCHANGED <<flow_rows, traffic>>

\* ----------------------------------------------------------------- Next
\* The controller driven by a client whose calls are bounded by B and whose
\* link weights and flow endpoints come from B.weights and B.flows.
NextOf(B) ==
  \/ \E nodes \in NodeArgs :
        /\ Allowed(B, "add_node")
        /\ in_naming_order(KnownNodes, nodes)
        /\ add_node(nodes)
  \/ \E p \in Pairs, w \in B.weights, c \in Capacities :
        /\ Allowed(B, "add_link")
        /\ in_naming_order(KnownNodes, p)
        /\ add_link(p[1], p[2], w, c)
  \/ \E p \in Pairs :
        /\ Allowed(B, "remove_link")
        /\ in_naming_order(KnownNodes, p)
        /\ remove_link(p[1], p[2])
  \/ \E p \in B.flows, t \in TrafficTypes :
        /\ Allowed(B, "inject_flow")
        /\ in_naming_order(KnownNodes, p)
        /\ inject_flow(p[1], p[2], t)
  \/ Allowed(B, "compute_paths") /\ compute_paths

\* Failure runs: one routing pass and up to two link failures, unit weights.
FailBounds ==
  [add_node |-> MaxAddNode, add_link |-> MaxAddLink, remove_link |-> FailMaxRemove,
   inject_flow |-> MaxInject, compute_paths |-> FailMaxCompute,
   weights |-> {1}, flows |-> {p \in Pairs : p[1] = "A"}]

\* Routing runs: two routing passes over weighted links, one link failure.
RouteBounds ==
  [add_node |-> MaxAddNode, add_link |-> MaxAddLink, remove_link |-> RouteMaxRemove,
   inject_flow |-> MaxInject, compute_paths |-> RouteMaxCompute,
   weights |-> Weights, flows |-> {p \in Pairs : p[1] = "A"}]

\* Node runs: nodes added a second time, one routing pass, one link failure.
NodeBounds ==
  [add_node |-> NodeMaxAddNode, add_link |-> MaxAddLink, remove_link |-> RouteMaxRemove,
   inject_flow |-> MaxInject, compute_paths |-> FailMaxCompute,
   weights |-> {1}, flows |-> {p \in Pairs : p[1] = "A"}]

Next == NextOf(FailBounds)
NextRoute == NextOf(RouteBounds)
NextNode == NextOf(NodeBounds)

Spec == Init /\ [][Next]_vars
SpecRoute == Init /\ [][NextRoute]_vars
SpecNode == Init /\ [][NextNode]_vars

\* The scenario of three nodes joined by A-B (weight 1), B-C (weight 1) and
\* A-C (weight 5), all of capacity 10: the nodes and the links are added in
\* any order, then compute_paths, inject_flow A C critical, compute_paths and
\* remove_link A B are called in this order.
ScenarioLinks ==
  {[ends |-> {"A", "B"}, weight |-> 1], [ends |-> {"B", "C"}, weight |-> 1],
   [ends |-> {"A", "C"}, weight |-> 5]}

NextScenario ==
  \/ \E nodes \in NodeArgs :
        /\ calls.add_node = 0
        /\ Range(nodes) = Nodes
        /\ add_node(nodes)
  \/ \E l \in ScenarioLinks, p \in Pairs, c \in Capacities :
        /\ calls.add_node = 1
        /\ {p[1], p[2]} = l.ends
        /\ ~has_edge(topology, p[1], p[2])
        /\ calls.compute_paths = 0
        /\ add_link(p[1], p[2], l.weight, c)
  \/ /\ \A q \in Pairs : has_edge(topology, q[1], q[2])
     /\ calls.compute_paths = 0
     /\ compute_paths
  \/ /\ calls.compute_paths = 1
     /\ calls.inject_flow = 0
     /\ inject_flow("A", "C", "critical")
  \/ /\ calls.inject_flow = 1
     /\ calls.compute_paths = 1
     /\ compute_paths
  \/ \E p \in {<<"A", "B">>, <<"B", "A">>} :
        /\ calls.compute_paths = 2
        /\ calls.remove_link = 0
        /\ remove_link(p[1], p[2])

SpecScenario == Init /\ [][NextScenario]_vars

\* ------------------------------------------------------------ properties
\* The links of the graph, as ordered pairs (both orders).
Links(g) == {q \in Pairs : has_edge(g, q[1], q[2])}

\* Whether path is a sequence of nodes whose consecutive nodes are linked in g.
UsesLinksOf(g, path) ==
  \A i \in 1..(Len(path) - 1) : has_edge(g, path[i], path[i + 1])

\* The step is a call of operation op.
Called(op) == calls'[op] = calls[op] + 1

\* The state right after a compute_paths call that ran to completion.
Computed == lastOp.op = "compute_paths" /\ fault = "none"

\* The ordered pairs of distinct nodes of the graph.
NodePairs == {p \in Pairs : p[1] \in Range(topology.nodes) /\ p[2] \in Range(topology.nodes)}

\* The simple paths of the current topology between the ends of p.
PathsOf(p) == all_simple_paths(topology, p[1], p[2])

\* Whether path is a simple path from p[1] to p[2] over links of the graph.
IsSimplePath(path, p) ==
  /\ Len(path) >= 2
  /\ path[1] = p[1]
  /\ path[Len(path)] = p[2]
  /\ \A i, j \in DOMAIN path : i # j => path[i] # path[j]
  /\ UsesLinksOf(topology, path)

\* Every simple path from p[1] to p[2], found without the search.
SimplePathsBetween(p) ==
  {path \in UNION {[1..n -> Nodes] : n \in 2..Cardinality(Nodes)} : IsSimplePath(path, p)}

RECURSIVE PathWeight(_, _)
PathWeight(path, i) ==
  IF i >= Len(path) THEN 0
  ELSE topology.attr[{path[i], path[i + 1]}].weight + PathWeight(path, i + 1)

\* The sum of the directed counters along path, a missing counter counting 0.
RECURSIVE TotalUtilization(_, _)
TotalUtilization(path, i) ==
  IF i >= Len(path) THEN 0
  ELSE (IF <<path[i], path[i + 1]>> \in DOMAIN link_utilization
        THEN link_utilization[<<path[i], path[i + 1]>>] ELSE 0)
       + TotalUtilization(path, i + 1)

Priority(p) == IF p \in DOMAIN traffic THEN traffic[p].priority ELSE 1

BackupsOf(p) == IF p \in DOMAIN backup_paths THEN backup_paths[p] ELSE <<>>

\* C1: when remove_link removes a link that lies on the installed path of a
\* pair whose backup set is not empty, the pair's installed path afterwards
\* does not traverse the removed link and its backup set is one entry shorter.
C1_FailureRecovery ==
  [][\A q \in Links(topology) \ Links(topology'), p \in DOMAIN flow_tables :
       ( /\ Called("remove_link")
         /\ traverses(flow_tables[p], q[1], q[2])
         /\ p \in DOMAIN backup_paths
         /\ backup_paths[p] # <<>> )
       => /\ ~traverses(flow_tables'[p], q[1], q[2])
          /\ Len(backup_paths'[p]) = Len(backup_paths[p]) - 1]_vars

\* C2: every flow-table entry that is present and not unreachable is a
\* sequence of nodes whose consecutive nodes are joined by a link of the
\* current topology.
C2_InstalledPathsUseLinks ==
  \A p \in DOMAIN flow_tables : UsesLinksOf(topology, flow_tables[p])

\* C3: no operation ends in an unhandled exception.
C3_NoAbort == fault = "none"

\* C4: right after compute_paths completes, every flow-table entry that is
\* not unreachable is a simple path from its source to its destination over
\* links of the topology.
C4_ComputedPathsAreSimple ==
  Computed =>
    \A p \in DOMAIN flow_tables :
       flow_tables[p] # None => IsSimplePath(flow_tables[p], p)

C4_Witness ==
  /\ Computed
  /\ calls.remove_link > 0
  /\ \E p \in DOMAIN flow_tables : Len(flow_tables[p]) = 3
  /\ \E p \in DOMAIN flow_tables : Len(flow_tables[p]) = 2

\* C5: after compute_paths, every ordered pair of distinct nodes of the
\* topology has a flow-table entry, a path or unreachable, whether its nodes
\* came from add_node or only as the ends of an add_link; the entry is
\* unreachable exactly when no simple path exists.
C5_EveryPairRecorded ==
  lastOp.op = "compute_paths" =>
    \A p \in NodePairs :
       /\ p \in DOMAIN flow_tables
       /\ flow_tables[p] = None <=> SimplePathsBetween(p) = {}

\* C6: after compute_paths, the installed path of a pair of critical
\* priority weighs no more than any simple path between the pair.
C6_CriticalTakesLightestPath ==
  Computed =>
    \A p \in DOMAIN flow_tables :
       (Priority(p) = 3 /\ flow_tables[p] # None) =>
          \A q \in SimplePathsBetween(p) :
             PathWeight(flow_tables[p], 1) <= PathWeight(q, 1)

\* A critical pair routed over two hops although the direct link exists.
C6_Witness ==
  /\ Computed
  /\ \E p \in DOMAIN flow_tables :
       /\ Priority(p) = 3
       /\ Len(flow_tables[p]) = 3
       /\ has_edge(topology, p[1], p[2])
       /\ PathsOf(p)[1] # flow_tables[p]

\* C7: after compute_paths, the installed path of a pair that is not of
\* critical priority (a pair without a traffic descriptor included) is the
\* first path, in enumeration order, among the simple paths of least total
\* utilization.
C7_OthersTakeFirstLeastUtilized ==
  Computed =>
    \A p \in DOMAIN flow_tables :
       (Priority(p) # 3 /\ PathsOf(p) # <<>>) =>
          \E k \in DOMAIN PathsOf(p) :
             /\ flow_tables[p] = PathsOf(p)[k]
             /\ \A j \in DOMAIN PathsOf(p) :
                   TotalUtilization(PathsOf(p)[k], 1) <= TotalUtilization(PathsOf(p)[j], 1)
             /\ \A j \in 1..(k - 1) :
                   TotalUtilization(PathsOf(p)[j], 1) > TotalUtilization(PathsOf(p)[k], 1)

\* A pair routed over the path enumerated second because the first carries
\* more traffic, and a pair routed over the first of two equally loaded paths.
C7_Witness ==
  /\ Computed
  /\ \E p \in DOMAIN flow_tables :
       /\ Priority(p) # 3
       /\ Len(PathsOf(p)) = 2
       /\ flow_tables[p] = PathsOf(p)[2]
       /\ TotalUtilization(PathsOf(p)[1], 1) > TotalUtilization(PathsOf(p)[2], 1)
  /\ \E p \in DOMAIN flow_tables :
       /\ Priority(p) # 3
       /\ Len(PathsOf(p)) = 2
       /\ flow_tables[p] = PathsOf(p)[1]
       /\ TotalUtilization(PathsOf(p)[1], 1) = TotalUtilization(PathsOf(p)[2], 1)

\* C8: after compute_paths, the backup set of every ordered pair of distinct
\* nodes holds exactly the simple paths between the pair other than the
\* installed one, in enumeration order, and nothing when the pair has at
\* most one simple path.
C8_BackupsOverwritten ==
  Computed =>
    \A p \in NodePairs :
       BackupsOf(p) = without(PathsOf(p), flow_tables[p])

\* C9: a compute_paths call right after a compute_paths call leaves the flow
\* table and the backup registry as the first call left them.
C9_ComputeTwiceIsIdempotent ==
  [][(lastOp.op = "compute_paths" /\ Called("compute_paths"))
       => (flow_tables' = flow_tables /\ backup_paths' = backup_paths)]_vars

C9_Witness ==
  /\ Computed
  /\ lastOp.repeated
  /\ \E p \in DOMAIN backup_paths : backup_paths[p] # <<>>
  /\ \E p \in DOMAIN flow_tables : flow_tables[p] # None

Installed(p) == IF p \in DOMAIN flow_tables THEN flow_tables[p] ELSE None

\* C11: inject_flow(src, dst, type) on a pair whose entry is a path adds
\* exactly 1 to both directed counters of every link of the path and leaves
\* every other counter as it was; when the entry is unreachable or absent no
\* counter changes.  No counter is created or deleted.
C11_InjectAccounting ==
  [][\A p \in Pairs, t \in TrafficTypes :
       (Called("inject_flow") /\ inject_flow(p[1], p[2], t)) =>
          /\ DOMAIN link_utilization' = DOMAIN link_utilization
          /\ \A q \in DOMAIN link_utilization :
                link_utilization'[q] =
                  link_utilization[q]
                    + (IF traverses(Installed(p), q[1], q[2]) THEN 1 ELSE 0)]_vars

\* A flow injected on a two-hop path: its four counters are up, the counters
\* of the third link are not.
C11_Witness ==
  /\ lastOp.op = "inject_flow"
  /\ fault = "none"
  /\ \E p \in DOMAIN traffic :
       /\ Len(Installed(p)) = 3
       /\ \A q \in DOMAIN link_utilization :
            traverses(Installed(p), q[1], q[2]) => link_utilization[q] >= 1
       /\ \E q \in DOMAIN link_utilization :
            ~traverses(Installed(p), q[1], q[2]) /\ link_utilization[q] = 0

\* C12, as claimed: inject_flow for a pair that has no flow-table entry at all
\* changes no engine state: topology, flow table, backup registry, counters
\* and traffic descriptors are as before the call.
C12_NoRouteNoChange ==
  [][\A p \in Pairs, t \in TrafficTypes :
       ( /\ Called("inject_flow")
         /\ inject_flow(p[1], p[2], t)
         /\ p \notin DOMAIN flow_tables )
       => UNCHANGED <<topology, flow_rows, flow_tables, backup_paths,
                      link_utilization, traffic>>]_vars

\* C12, amended: inject_flow for a pair that has no flow-table entry at all
\* completes and changes nothing but the traffic descriptors: the descriptor
\* of the pair is recorded (or replaced) with the type given and the priority
\* derived from it, every other descriptor stays, and topology, flow table,
\* backup registry and counters are as before the call.
C12_NoRouteRecordsDescriptorOnly ==
  [][\A p \in Pairs, t \in TrafficTypes :
       ( /\ Called("inject_flow")
         /\ inject_flow(p[1], p[2], t)
         /\ p \notin DOMAIN flow_tables )
       => /\ UNCHANGED <<topology, flow_rows, flow_tables, backup_paths,
                         link_utilization>>
          /\ fault' = "none"
          /\ DOMAIN traffic' = DOMAIN traffic \cup {p}
          /\ traffic'[p] = [type |-> t,
                            priority |-> IF t = "critical" THEN 3
                                         ELSE IF t = "important" THEN 2 ELSE 1]
          /\ \A q \in DOMAIN traffic : q # p => traffic'[q] = traffic[q]]_vars

\* A flow injected for a pair without an entry while other pairs are routed
\* and links carry counters.
C12_Witness ==
  /\ lastOp.op = "inject_flow"
  /\ \E p \in DOMAIN traffic : p \notin DOMAIN flow_tables
  /\ \E p \in DOMAIN flow_tables : flow_tables[p] # None
  /\ DOMAIN link_utilization # {}

\* C13: add_node(id) for a node that is already in the topology leaves the
\* engine state as it was: topology, the flow-table entries (those of the
\* node included), backup registry, counters and traffic descriptors.
C13_AddNodeIsIdempotent ==
  [][\A n \in Nodes :
       ( /\ Called("add_node")
         /\ add_node(<<n>>)
         /\ n \in Range(topology.nodes) )
       => UNCHANGED <<topology, flow_tables, backup_paths, link_utilization,
                      traffic>>]_vars

\* C14: add_node, add_link and inject_flow leave every existing flow-table
\* entry and every backup set as they were: entries and backup sets change
\* only in compute_paths and in the failure handling of remove_link.
C14_OnlyComputeAndFailureChangeRoutes ==
  [][(Called("add_node") \/ Called("add_link") \/ Called("inject_flow"))
       => /\ \A p \in DOMAIN flow_tables :
               p \in DOMAIN flow_tables' /\ flow_tables'[p] = flow_tables[p]
          /\ backup_paths' = backup_paths]_vars

\* C15: remove_link(u, v) when no link joins u and v completes and changes
\* nothing: topology, counters, flow table, backup registry and traffic
\* descriptors are as before (the failure handler has not run).  After any
\* remove_link(u, v) no link joins u and v, so a second call changes nothing.
C15_MissingLinkIsNoOp ==
  [][\A p \in Pairs :
       (Called("remove_link") /\ remove_link(p[1], p[2])) =>
          /\ ~has_edge(topology', p[1], p[2])
          /\ ~has_edge(topology, p[1], p[2]) =>
               /\ UNCHANGED <<topology, flow_rows, flow_tables, backup_paths,
                              link_utilization, traffic>>
               /\ fault' = "none"]_vars

\* A remove_link call that found no link to remove (two links were added
\* and both exist) in a state with a path installed over both.
C15_Witness ==
  /\ lastOp.op = "remove_link"
  /\ calls.add_link = 2
  /\ Cardinality(Links(topology)) = 4
  /\ \E p \in DOMAIN flow_tables : Len(flow_tables[p]) = 3

\* C16: when remove_link removes an existing link, every pair whose installed
\* path does not traverse the link (an unreachable or absent entry included)
\* keeps its flow-table entry and its backup set, and no backup set gains an
\* entry.
C16_FailureTouchesAffectedOnly ==
  [][\A q \in Links(topology) \ Links(topology') :
       Called("remove_link") =>
          /\ \A p \in Pairs :
               ~traverses(Installed(p), q[1], q[2]) =>
                  /\ p \in DOMAIN flow_tables' <=> p \in DOMAIN flow_tables
                  /\ p \in DOMAIN flow_tables => flow_tables'[p] = flow_tables[p]
                  /\ p \in DOMAIN backup_paths' <=> p \in DOMAIN backup_paths
                  /\ p \in DOMAIN backup_paths => backup_paths'[p] = backup_paths[p]
          /\ \A p \in DOMAIN backup_paths' :
               /\ p \in DOMAIN backup_paths
               /\ Len(backup_paths'[p]) <= Len(backup_paths[p])]_vars

\* A completed link failure that rerouted one pair and passed by another
\* pair that has a path and a backup.
C16_Witness ==
  /\ lastOp.op = "remove_link"
  /\ fault = "none"
  /\ \E p \in DOMAIN failures : failures[p].k = 1 /\ Installed(p) # None
  /\ \E p \in DOMAIN failures :
       /\ failures[p].k = 0
       /\ Installed(p) # None
       /\ BackupsOf(p) # <<>>

\* C17: when remove_link removes a link on the installed path of a pair
\* whose backup set is absent or empty, the pair's entry is unreachable after
\* the operation; and when no affected pair has a backup, the operation
\* increments no counter (it only deletes the two counters of the link).
C17_NoBackupMeansUnreachable ==
  [][\A q \in Links(topology) \ Links(topology') :
       Called("remove_link") =>
          /\ \A p \in DOMAIN flow_tables :
               (traverses(flow_tables[p], q[1], q[2]) /\ BackupsOf(p) = <<>>)
                  => flow_tables'[p] = None
          /\ (\A p \in DOMAIN flow_tables :
                 traverses(flow_tables[p], q[1], q[2]) => BackupsOf(p) = <<>>)
               => link_utilization' = Pop(Pop(link_utilization, q), <<q[2], q[1]>>)]_vars

\* C18: in the scenario, after compute_paths, inject_flow A C critical and
\* compute_paths again the installed path of (A, C) is [A, B, C]; the
\* remove_link A B that follows runs to completion and leaves (A, C)
\* installed on [A, C].
C18_Scenario ==
  /\ (calls.compute_paths = 2 /\ calls.remove_link = 0)
       => /\ fault = "none"
          /\ Installed(<<"A", "C">>) = <<"A", "B", "C">>
  /\ calls.remove_link = 1
       => /\ fault = "none"
          /\ Installed(<<"A", "C">>) = <<"A", "C">>
          /\ \A p \in DOMAIN flow_tables :
                flow_tables[p] # None /\ ~traverses(flow_tables[p], "A", "B")

\* The end of the scenario: link A-B is gone and (A, C) has used its backup.
C18_Witness ==
  /\ calls.remove_link = 1
  /\ calls.inject_flow = 1
  /\ ~has_edge(topology, "A", "B")
  /\ failures[<<"A", "C">>] = [n |-> 1, k |-> 1]
  /\ BackupsOf(<<"A", "C">>) = <<>>

\* A counter exists for exactly the directed pairs joined by a link, and no
\* counter is negative.
CountersMatchLinks ==
  /\ DOMAIN link_utilization = Links(topology)
  /\ \A q \in DOMAIN link_utilization : link_utilization[q] >= 0

\* C19: in every reachable state a counter exists for the directed pair
\* (u, v) exactly when a link joins u and v, and every counter is a
\* non-negative integer; add_link, of a new link or of an existing one, leaves
\* both directed counters of the link at 0.
C19_CountersFollowLinks ==
  /\ []CountersMatchLinks
  /\ [][\A p \in Pairs, w \in Weights, c \in Capacities :
          (Called("add_link") /\ add_link(p[1], p[2], w, c)) =>
             /\ link_utilization'[p] = 0
             /\ link_utilization'[<<p[2], p[1]>>] = 0]_vars

\* After a link failure and some traffic, add_link has just run and counters
\* at 0 stand beside counters above 0.
C19_Witness ==
  /\ lastOp.op = "add_link"
  /\ calls.remove_link >= 1
  /\ Cardinality(Links(topology)) < 2 * calls.add_link
  /\ \E q \in DOMAIN link_utilization : link_utilization[q] = 0
  /\ \E q \in DOMAIN link_utilization : link_utilization[q] > 0

\* The pairs a remove_link step of link q has rerouted: their installed path
\* traversed q and the step has taken the first backup off their queue.
Rerouted(q) ==
  {p \in DOMAIN flow_tables :
     /\ traverses(flow_tables[p], q[1], q[2])
     /\ BackupsOf(p) # <<>>
     /\ backup_paths'[p] = Tail(backup_paths[p])}

\* C20: when remove_link removes an existing link, every pair it reroutes is
\* installed on the backup that was first in its queue, and the counter of
\* every surviving directed link grows by exactly the number of rerouted
\* pairs whose new path traverses the link (by 0 when none does).
C20_RerouteAccounting ==
  [][\A q \in Links(topology) \ Links(topology') :
       Called("remove_link") =>
          /\ \A p \in Rerouted(q) : flow_tables'[p] = Head(backup_paths[p])
          /\ \A l \in DOMAIN link_utilization' :
               link_utilization'[l] =
                 link_utilization[l]
                   + Cardinality({p \in Rerouted(q) :
                                    traverses(Head(backup_paths[p]), l[1], l[2])})]_vars
====
